---- MODULE Spec2Model ----
(***************************************************************************)
(* NodeQualityFilter.process_nodes of node_quality_filter.py: the batched  *)
(* minimum-guarantee probing loop, scoring, ranking, truncation and the    *)
(* IP-risk / region enrichment, as a state machine.                        *)
(*                                                                         *)
(* A node is a Python dict shared by reference between the lists that hold *)
(* it; the model keeps the dicts in the heap `node` (id -> record) and the *)
(* lists as sequences of ids.  A dict key that may be missing is tracked   *)
(* in the field `has` (the set of optional keys present).                  *)
(*                                                                         *)
(* The two literals of the loop, 20000 (hard ceiling) and 2000 (size of a  *)
(* later batch), are scaled to HardCeiling and LaterBatchSize so that a    *)
(* pool of a few nodes crosses them; latencies are whole milliseconds.     *)
(***************************************************************************)
EXTENDS Integers, Sequences, FiniteSets, TLC

\* ------------------------------------------------------------------ bounds
MaxPool == 4          \* largest candidate pool (len(parsed_nodes))
MaxBatches == 5       \* cap on batch_idx (a batch of size 0 repeats forever)
MaxLines == 3         \* most lines of an input file (len(nodes))

\* ------------------------------------------------------- program constants
HardCeiling == 3      \* `if total_tested >= 20000`, scaled
LaterBatchSize == 1   \* `batch_size = 2000`, scaled
RegionScorePenalty == 50     \* node['score'] -= 50
BlockedRegionPenalty == 20   \* node['final_score'] -= 20
MissingLatencyKey == 999     \* x.get('latency', 999)
DefaultPort == 443           \* `else 443` of the trojan/vless/hysteria parsers
TopReported == 2             \* `available_nodes[:10]`, scaled

Min(a, b) == IF a <= b THEN a ELSE b
Max(a, b) == IF a >= b THEN a ELSE b

\* self.protocol_scores
protocol_scores ==
  [p \in {"hysteria2", "hysteria", "vless", "trojan", "vmess", "ss", "ssr"} |->
     CASE p = "hysteria2" -> 10
       [] p = "hysteria"  -> 9
       [] p = "vless"     -> 8
       [] p = "trojan"    -> 7
       [] p = "vmess"     -> 6
       [] p = "ss"        -> 5
       [] p = "ssr"       -> 4]

\* self.preferred_protocols (built-in default)
preferred_protocols == {"hysteria2", "vless", "trojan", "vmess", "ss"}

\* The two protocols of the mixed candidate pools explored (they alternate)
PoolProtocols == {"vless", "ssr"}

\* Latencies (ms) a successful connect may measure
Latencies == {50, 250, 600}

\* Outcomes of one test_connectivity call
ProbeOutcomes ==
  [status : {"online"}, latency : Latencies]
    \cup [status : {"offline", "timeout", "dns_error", "error"}, latency : {0}]

\* s[:b] and s[b:] of a Python list, negative b counting from the end
PySplitAt(s, b) == IF b >= 0 THEN Min(b, Len(s)) ELSE Max(Len(s) + b, 0)
PySliceTo(s, b) == SubSeq(s, 1, PySplitAt(s, b))

\* PySliceFrom starting one element early, so the batch's last node stays
PySliceFrom_Overlap(s, b) == SubSeq(s, Max(PySplitAt(s, b), 1), Len(s))

PySliceFrom(s, b) == SubSeq(s, PySplitAt(s, b) + 1, Len(s))

Range(s) == {s[i] : i \in 1..Len(s)}

VARIABLES
  config,           \* the options read by load_config / process_nodes
  input_source,     \* the input file process_nodes chose, "None" before
  raw_nodes,        \* the lines read from it (`nodes` of process_nodes)
  parse_idx,        \* position of the parse loop over raw_nodes
  parsed_nodes_map, \* dedup key -> the node kept for it
  parsed_nodes,     \* the shuffled, deduplicated candidate pool
  node,             \* the node dicts
  pc,               \* position of process_nodes
  remaining_nodes, available_nodes, total_tested, batch_idx,
  current_batch, batch_results,
  futures,          \* state of each submitted probe of the current batch
  probes,           \* how many times test_connectivity ran on each node
  nodes,            \* the list given to check_ip_risk
  target_nodes, unchecked_nodes, checked_nodes,
  enrich_idx,       \* position of the loop over target_nodes
  api_calls,        \* nodes the provider was queried for, in order
  answers,          \* what the lookup of each iteration met, in order
  sleeps,           \* pacing delays taken
  output,           \* the list handed to _save_results, one line each
  report            \* the report _save_results writes, <<>> before

vars == <<config, input_source, raw_nodes, parse_idx, parsed_nodes_map,
          parsed_nodes, node, pc, remaining_nodes, available_nodes,
          total_tested, batch_idx, current_batch, batch_results, futures,
          probes, nodes, target_nodes, unchecked_nodes, checked_nodes,
          enrich_idx, api_calls, answers, sleeps, output, report>>

parseVars == <<input_source, raw_nodes, parse_idx, parsed_nodes_map>>
probeVars == <<remaining_nodes, available_nodes, total_tested, batch_idx,
               current_batch, batch_results, futures, probes>>
enrichVars == <<nodes, target_nodes, unchecked_nodes, checked_nodes,
                enrich_idx, api_calls, answers, sleeps>>

Has(nd, n, k) == k \in nd[n].has

\* the dict parse_node builds
NewNode(p) ==
  [protocol |-> p, score |-> protocol_scores[p], has |-> {},
   status |-> "unprobed", latency |-> 0, final_score |-> 0,
   risk_score |-> 0, country |-> ""]

\* ------------------------------------------------------------------ input
\* A line of the input file: what stands before '://' ("" when the line has
\* no '://'), the text the parser of the protocol takes for the host (""
\* when it finds none), the decimal digits it takes for the port (<<>> when
\* it finds none), and, for the JSON of a vmess link, a port given with a
\* minus sign
PortTexts ==
  {<<>>, <<0>>, <<1>>, <<4, 4, 3>>, <<6, 5, 5, 3, 5>>, <<6, 5, 5, 3, 6>>}
Urls ==
  {u \in [scheme : {"vless", "VLESS", "trojan", "vmess", "ss", "ssr",
                    "hysteria", "hysteria2", "http", ""},
          host : {"", "h"}, port : PortTexts, neg : BOOLEAN] :
     u.neg => (u.scheme = "vmess" /\ u.port # <<>>)}

\* the lines of the files of several lines
RawLines ==
  [scheme : {"vless", "ssr", "http", ""}, host : {"", "h"},
   port : {<<>>, <<4, 4, 3>>}, neg : {FALSE}]

\* the files: up to MaxLines lines of RawLines, or one line of Urls
InputFiles ==
  UNION {[1..k -> RawLines] : k \in 0..MaxLines} \cup [1..1 -> Urls]

\* str.lower() on the schemes
Lower(s) == IF s = "VLESS" THEN "vless" ELSE s

\* int() on a string of decimal digits
RECURSIVE PyInt(_)
PyInt(digits) ==
  IF digits = <<>> THEN 0
  ELSE 10 * PyInt(SubSeq(digits, 1, Len(digits) - 1)) + digits[Len(digits)]

\* {'host': None, 'port': None}; a host of None or '' and a port of None or
\* 0 are one falsy value each
NoEndpoint == [host |-> "", port |-> 0]

\* _parse_vmess: host is config.get('add', ''), port is int(port) when the
\* JSON has a truthy port
parse_vmess(url) ==
  [host |-> url.host,
   port |-> IF url.port = <<>> THEN 0
            ELSE IF url.neg THEN 0 - PyInt(url.port) ELSE PyInt(url.port)]

\* _parse_ss: both the base64 form and the regex need host and port
parse_ss(url) ==
  IF url.host # "" /\ url.port # <<>>
  THEN [host |-> url.host, port |-> PyInt(url.port)]
  ELSE NoEndpoint

\* _parse_trojan_vless: the port group is optional
parse_trojan_vless(url) ==
  IF url.host # ""
  THEN [host |-> url.host,
        port |-> IF url.port # <<>> THEN PyInt(url.port) ELSE DefaultPort]
  ELSE NoEndpoint

\* _parse_hysteria: the same, with or without '@'
parse_hysteria(url) ==
  IF url.host # ""
  THEN [host |-> url.host,
        port |-> IF url.port # <<>> THEN PyInt(url.port) ELSE DefaultPort]
  ELSE NoEndpoint

\* parse_node returning None
Null == [protocol |-> "", host |-> "", port |-> 0]

\* `return node_info if node_info['host'] and node_info['port'] else None`
ParseResult(protocol, e) ==
  IF e.host # "" /\ e.port # 0
  THEN [protocol |-> protocol, host |-> e.host, port |-> e.port]
  ELSE Null

\* parse_node: protocol, host and port of the dict it returns, or Null
parse_node(url) ==
  IF url.scheme = "" THEN Null
  ELSE LET protocol == Lower(url.scheme)
       IN IF protocol \notin DOMAIN protocol_scores THEN Null
          ELSE ParseResult(protocol,
                 IF protocol = "vmess" THEN parse_vmess(url)
                 ELSE IF protocol \in {"ss", "ssr"} THEN parse_ss(url)
                 ELSE IF protocol \in {"trojan", "vless"}
                 THEN parse_trojan_vless(url)
                 ELSE parse_hysteria(url))

\* `if info:`
Parses(url) == parse_node(url) # Null

\* key = f"{info['protocol']}://{info['host']}:{info['port']}"
Key(url) ==
  <<parse_node(url).protocol, parse_node(url).host, parse_node(url).port>>

\* ----------------------------------------------------------- configuration
\* the attributes that only load_config sets on the filter, and only when
\* it gets as far as their assignments
LoadedAttrs == {"ip_risk_config", "region_config"}

\* ip_risk_check.* as load_config leaves it (ipapi_behavior flattened)
RiskDisabled ==
  [enabled |-> FALSE, provider |-> "abuseipdb", has_api_key |-> TRUE,
   check_top_nodes |-> 1, max_risk_score |-> 50, exclude_hosting |-> TRUE,
   exclude_proxy |-> FALSE, exclude_mobile |-> FALSE]
RiskConfigs ==
  {RiskDisabled}
    \cup {[RiskDisabled EXCEPT !.enabled = TRUE, !.provider = p,
                               !.check_top_nodes = k] :
            p \in {"abuseipdb", "ipapi"}, k \in {0, 1, 2}}

\* quality_filter.region_limit
RegionDisabled ==
  [is_dict |-> TRUE, enabled |-> FALSE, policy |-> "filter",
   allowed_countries |-> {}, blocked_countries |-> {}]
RegionConfigs ==
  {RegionDisabled}
    \cup {[RegionDisabled EXCEPT !.enabled = TRUE, !.policy = m,
                                 !.blocked_countries = {"CN"}] :
            m \in {"filter", "penalize"}}

\* a `region_limit:` key whose YAML value is not a mapping: load_config
\* stores it in self.region_config, the `.get` of its next line raises and
\* the except of load_config only logs a warning
RegionNotADict == [RegionDisabled EXCEPT !.is_dict = FALSE]

\* region_limit with allow-lists, block-lists, both modes, and malformed
RegionPolicyConfigs ==
  RegionConfigs
    \cup {[RegionDisabled EXCEPT !.enabled = TRUE, !.policy = m,
                                 !.allowed_countries = {"US"}] :
            m \in {"filter", "penalize"}}
    \cup {[RegionDisabled EXCEPT !.enabled = TRUE,
                                 !.allowed_countries = {"US", "CN"},
                                 !.blocked_countries = {"CN"}]}
    \cup {RegionNotADict}

\* Configurations that vary the region policy, enrichment being on
RegionRunConfigs ==
  [max_test_nodes : {2}, min_guarantee : {2}, max_output_nodes : {2},
   max_workers : {1}, max_latency : {500},
   preferred_protocols_only : {FALSE}, attrs : {LoadedAttrs},
   ip_risk_config : {rc \in RiskConfigs :
                       rc.enabled /\ rc.check_top_nodes >= 1},
   region_config : RegionPolicyConfigs]

\* Configurations that vary the probing loop: first-batch size (negative and
\* zero included) and guarantee, with enrichment off
ProbingConfigs ==
  [max_test_nodes : {-1, 0, 1, 2, 4}, min_guarantee : {0, 1, 3},
   max_output_nodes : {2}, max_workers : {2}, max_latency : {500},
   preferred_protocols_only : {FALSE}, attrs : {LoadedAttrs},
   ip_risk_config : {RiskDisabled}, region_config : {RegionDisabled}]

\* Configurations that vary enrichment, the pool being probed in one batch
EnrichmentConfigs ==
  [max_test_nodes : {3}, min_guarantee : {3},
   max_output_nodes : {0, 1, 2}, max_workers : {1}, max_latency : {500},
   preferred_protocols_only : {FALSE}, attrs : {LoadedAttrs},
   ip_risk_config : RiskConfigs, region_config : RegionConfigs]

\* The filter when config.yaml is missing, empty or unreadable: load_config
\* assigns nothing, the attributes keep the values of __init__ (5000, 200,
\* 32 and 500, the first three scaled like the ceiling), min_guarantee falls
\* back on max_output_nodes, and ip_risk_config and region_config are not
\* set. The two records stand for the missing attributes and are never read.
DefaultConfig ==
  [max_test_nodes |-> 2, min_guarantee |-> 2, max_output_nodes |-> 2,
   max_workers |-> 2, max_latency |-> 500,
   preferred_protocols_only |-> FALSE, attrs |-> {},
   ip_risk_config |-> RiskDisabled, region_config |-> RegionDisabled]

\* ------------------------------------------------------------------- Init
\* process_nodes up to the loop: the pool is parsed, deduplicated and
\* shuffled; nothing is probed yet.
MixedPool(n) ==
  \E first \in PoolProtocols :
     node = [i \in 1..n |->
               NewNode(IF i % 2 = 1 THEN first
                       ELSE CHOOSE p \in PoolProtocols : p # first)]

\* the locals of process_nodes and check_ip_risk before the loop runs
NothingRun ==
  /\ available_nodes = <<>>
  /\ total_tested = 0
  /\ batch_idx = 1
  /\ current_batch = <<>>
  /\ batch_results = <<>>
  /\ futures = <<>>
  /\ nodes = <<>>
  /\ target_nodes = <<>>
  /\ unchecked_nodes = <<>>
  /\ checked_nodes = <<>>
  /\ enrich_idx = 0
  /\ api_calls = <<>>
  /\ answers = <<>>
  /\ sleeps = 0
  /\ output = <<>>
  /\ report = <<>>

\* the input line node i of the pool was parsed from, the pool being
\* numbered in its shuffled order
LineOf(i) ==
  [scheme |-> node[i].protocol, host |-> "h", port |-> <<i>>, neg |-> FALSE]

\* the input was read from the first file and every line gave a node
InputParsed ==
  /\ input_source = "sub_all_url_check.txt"
  /\ raw_nodes = [i \in DOMAIN node |-> LineOf(i)]
  /\ parse_idx = Len(raw_nodes) + 1
  /\ parsed_nodes_map =
       [k \in {Key(LineOf(i)) : i \in DOMAIN node} |-> k[3]]

\* process_nodes at the head of its loop: nothing has run yet
BeforeLoop ==
  /\ InputParsed
  /\ remaining_nodes = parsed_nodes
  /\ pc = "loop"
  /\ NothingRun

Init ==
  /\ \E n \in 0..MaxPool :
       /\ parsed_nodes = [i \in 1..n |-> i]
       /\ probes = [i \in 1..n |-> 0]
       /\ \/ /\ config \in ProbingConfigs
             /\ node = [i \in 1..n |-> NewNode("vless")]
          \/ /\ config \in EnrichmentConfigs
             /\ n <= config.max_test_nodes
             /\ MixedPool(n)
          \/ /\ config = DefaultConfig
             /\ node = [i \in 1..n |-> NewNode("vless")]
  /\ BeforeLoop

\* the same start, for the configurations that vary the region policy
InitRegion ==
  /\ \E n \in 0..MaxPool :
       /\ parsed_nodes = [i \in 1..n |-> i]
       /\ probes = [i \in 1..n |-> 0]
       /\ config \in RegionRunConfigs
       /\ n <= config.max_test_nodes
       /\ MixedPool(n)
  /\ BeforeLoop

\* ------------------------------------------------------ reading and parsing
\* Configurations of a run followed from its start to the head of the loop
ParseConfigs ==
  {[DefaultConfig EXCEPT !.attrs = LoadedAttrs,
                         !.preferred_protocols_only = b] : b \in BOOLEAN}

\* process_nodes when it is called
InitParse ==
  /\ config \in ParseConfigs
  /\ input_source = "None"
  /\ raw_nodes = <<>>
  /\ parse_idx = 0
  /\ parsed_nodes_map = <<>>
  /\ parsed_nodes = <<>>
  /\ node = <<>>
  /\ probes = <<>>
  /\ remaining_nodes = <<>>
  /\ pc = "start"
  /\ NothingRun

\* the first file is read without its lines that have no '://'
HasSeparator(url) == url.scheme # ""

\* one of the two input files exists and is read
ReadInput ==
  /\ pc = "start"
  /\ \E src \in {"sub_all_url_check.txt", "collected_nodes.txt"},
        lines \in InputFiles :
       /\ input_source' = src
       /\ raw_nodes' = IF src = "sub_all_url_check.txt"
                       THEN SelectSeq(lines, HasSeparator) ELSE lines
  /\ parse_idx' = 1
  /\ pc' = "parse"
  /\ UNCHANGED <<config, parsed_nodes_map, parsed_nodes, node, probeVars,
                 enrichVars, output, report>>

\* neither input file exists: the error is logged and process_nodes returns
InputMissing ==
  /\ pc = "start"
  /\ pc' = "halted"
  /\ UNCHANGED <<config, parseVars, parsed_nodes, node, probeVars,
                 enrichVars, output, report>>

\* IsNewKey that never finds the key in the map
IsNewKey_Always(map, key) == TRUE

\* `if key not in parsed_nodes_map`
IsNewKey(map, key) == key \notin DOMAIN map

\* one iteration of `for url in nodes`; the node built from line i is node i
ParseLine ==
  /\ pc = "parse"
  /\ parse_idx <= Len(raw_nodes)
  /\ LET url == raw_nodes[parse_idx]
         key == Key(url)
     IN IF Parses(url) /\ IsNewKey(parsed_nodes_map, key)
        THEN /\ node' = [i \in DOMAIN node \cup {parse_idx} |->
                           IF i = parse_idx
                           THEN NewNode(parse_node(url).protocol)
                           ELSE node[i]]
             /\ probes' = [i \in DOMAIN probes \cup {parse_idx} |->
                             IF i = parse_idx THEN 0 ELSE probes[i]]
             /\ parsed_nodes_map' =
                  [k \in DOMAIN parsed_nodes_map \cup {key} |->
                     IF k = key THEN parse_idx ELSE parsed_nodes_map[k]]
             /\ parsed_nodes' = Append(parsed_nodes, parse_idx)
        ELSE UNCHANGED <<node, probes, parsed_nodes_map, parsed_nodes>>
  /\ parse_idx' = parse_idx + 1
  /\ UNCHANGED <<config, input_source, raw_nodes, pc, remaining_nodes,
                 available_nodes, total_tested, batch_idx, current_batch,
                 batch_results, futures, enrichVars, output, report>>

IsPreferred(n) == node[n].protocol \in preferred_protocols

\* the orders random.shuffle can leave a list in
Shuffles(s) == {t \in [1..Len(s) -> Range(s)] : Range(t) = Range(s)}

\* the protocol filter, random.shuffle, and the locals of the loop
FilterAndShuffle ==
  /\ pc = "parse"
  /\ parse_idx > Len(raw_nodes)
  /\ \E t \in Shuffles(IF config.preferred_protocols_only
                       THEN SelectSeq(parsed_nodes, IsPreferred)
                       ELSE parsed_nodes) :
       /\ parsed_nodes' = t
       /\ remaining_nodes' = t
  /\ pc' = "loop"
  /\ UNCHANGED <<config, parseVars, node, available_nodes, total_tested,
                 batch_idx, current_batch, batch_results, futures, probes,
                 enrichVars, output, report>>

NextParse ==
  \/ ReadInput
  \/ InputMissing
  \/ ParseLine
  \/ FilterAndShuffle

SpecParse == InitParse /\ [][NextParse]_vars

\* what the caller of process_nodes gets: the bare `return` after the error
\* message and the end of the function both give None, an exception that
\* nothing catches propagates
CallerSees ==
  IF pc \in {"halted", "done"} THEN "None"
  ELSE IF pc = "crashed" THEN "exception"
  ELSE "running"

\* ----------------------------------------------------------- probing loop
\* GuaranteeMet with the comparison off by one
GuaranteeMet_Strict(avail, min_guarantee) == Len(avail) > min_guarantee

\* the test of `if len(available_nodes) >= min_guarantee: break`
GuaranteeMet(avail, min_guarantee) == Len(avail) >= min_guarantee

\* `if len(available_nodes) >= min_guarantee: break`
StopGuarantee ==
  /\ pc = "loop"
  /\ GuaranteeMet(available_nodes, config.min_guarantee)
  /\ pc' = "score"
  /\ UNCHANGED <<config, parseVars, parsed_nodes, node, probeVars, enrichVars, output, report>>

\* `if not remaining_nodes: break`
StopExhausted ==
  /\ pc = "loop"
  /\ ~GuaranteeMet(available_nodes, config.min_guarantee)
  /\ remaining_nodes = <<>>
  /\ pc' = "score"
  /\ UNCHANGED <<config, parseVars, parsed_nodes, node, probeVars, enrichVars, output, report>>

\* batch_size = max_test_once; if len(available_nodes) > 0: batch_size = 2000
BatchSize(avail, max_test_once) ==
  IF Len(avail) > 0 THEN LaterBatchSize ELSE max_test_once

\* size the batch, cut it off remaining_nodes, submit one probe per node
LaunchBatch ==
  /\ pc = "loop"
  /\ ~GuaranteeMet(available_nodes, config.min_guarantee)
  /\ remaining_nodes # <<>>
  /\ batch_idx <= MaxBatches
  /\ LET batch_size == BatchSize(available_nodes, config.max_test_nodes)
     IN /\ current_batch' = PySliceTo(remaining_nodes, batch_size)
        /\ remaining_nodes' = PySliceFrom(remaining_nodes, batch_size)
  /\ batch_results' = <<>>
  /\ futures' = [i \in 1..Len(current_batch') |-> "pending"]
  /\ pc' = "probing"
  /\ UNCHANGED <<config, parseVars, parsed_nodes, node, available_nodes, total_tested,
                 batch_idx, probes, enrichVars, output, report>>

Running == {i \in 1..Len(futures) : futures[i] = "running"}

\* a worker of the ThreadPoolExecutor takes the next submitted probe
ProbeStart ==
  /\ pc = "probing"
  /\ Cardinality(Running) < config.max_workers
  /\ \E i \in 1..Len(futures) :
       /\ futures[i] = "pending"
       /\ \A j \in 1..(i - 1) : futures[j] # "pending"
       /\ futures' = [futures EXCEPT ![i] = "running"]
  /\ UNCHANGED <<config, parseVars, parsed_nodes, node, pc, remaining_nodes,
                 available_nodes, total_tested, batch_idx, current_batch,
                 batch_results, probes, enrichVars, output, report>>

\* what test_connectivity writes into the node dict
test_connectivity(nd, n, o) ==
  IF o.status = "online"
  THEN [nd EXCEPT ![n].latency = o.latency, ![n].status = "online",
                  ![n].has = @ \cup {"latency"}]
  ELSE [nd EXCEPT ![n].status = o.status]

\* what test_connectivity returns: the node, or None
ProbeReturnsNode(o) == o.status = "online"

\* IsAvailable without the latency limit
IsAvailable_NoLimit(nd, n, returned, max_latency) ==
  returned /\ Has(nd, n, "latency")

\* `if result and result.get('latency', float('inf')) <= self.max_latency`
IsAvailable(nd, n, returned, max_latency) ==
  /\ returned
  /\ Has(nd, n, "latency")
  /\ nd[n].latency <= max_latency

\* a running probe returns and as_completed hands it to the collecting loop
ProbeComplete ==
  /\ pc = "probing"
  /\ \E i \in Running : \E o \in ProbeOutcomes :
       LET n == current_batch[i]
           nd == test_connectivity(node, n, o)
       IN /\ node' = nd
          /\ probes' = [probes EXCEPT ![n] = @ + 1]
          /\ futures' = [futures EXCEPT ![i] = "done"]
          /\ batch_results' =
               IF IsAvailable(nd, n, ProbeReturnsNode(o), config.max_latency)
               THEN Append(batch_results, n) ELSE batch_results
  /\ UNCHANGED <<config, parseVars, parsed_nodes, pc, remaining_nodes, available_nodes,
                 total_tested, batch_idx, current_batch, enrichVars, output, report>>

\* BatchDone as if the executor were left without waiting for running probes
BatchDone_NoWait == \A i \in 1..Len(futures) : futures[i] # "pending"

\* the executor's `with` block ends when every probe of the batch is done
BatchDone == \A i \in 1..Len(futures) : futures[i] = "done"

\* CeilingReached one node before the ceiling
CeilingReached_Early(tested) == tested >= HardCeiling - 1

\* `if total_tested >= 20000: break`
CeilingReached(tested) == tested >= HardCeiling

\* available_nodes.extend(batch_results); total_tested += len(current_batch)
FoldBatch ==
  /\ pc = "probing"
  /\ BatchDone
  /\ available_nodes' = available_nodes \o batch_results
  /\ total_tested' = total_tested + Len(current_batch)
  /\ IF CeilingReached(total_tested')
     THEN pc' = "score" /\ batch_idx' = batch_idx
     ELSE pc' = "loop" /\ batch_idx' = batch_idx + 1
  /\ UNCHANGED <<config, parseVars, parsed_nodes, node, remaining_nodes, current_batch,
                 batch_results, futures, probes, enrichVars, output, report>>

\* ------------------------------------------------------ scoring and ranking
\* LatencyAdjust with the bonuses of the second and third bucket exchanged
LatencyAdjust_Swapped(latency, max_latency) ==
  IF latency < 100 THEN 5
  ELSE IF latency < 200 THEN 1
  ELSE IF latency < 300 THEN 3
  ELSE IF latency > max_latency THEN -5
  ELSE 0

\* the latency adjustment of calculate_score
LatencyAdjust(latency, max_latency) ==
  IF latency < 100 THEN 5
  ELSE IF latency < 200 THEN 3
  ELSE IF latency < 300 THEN 1
  ELSE IF latency > max_latency THEN -5
  ELSE 0

\* calculate_score without the bonus of the preferred protocols
calculate_score_NoBonus(nd, n, max_latency) ==
  nd[n].score
    + (IF Has(nd, n, "latency")
       THEN LatencyAdjust(nd[n].latency, max_latency) ELSE 0)

\* the final_score calculate_score stores
calculate_score(nd, n, max_latency) ==
  nd[n].score
    + (IF Has(nd, n, "latency")
       THEN LatencyAdjust(nd[n].latency, max_latency) ELSE 0)
    + (IF nd[n].protocol \in preferred_protocols THEN 2 ELSE 0)

\* node_info['final_score'] = score, on the dict of node n
ScoreNode(nd, n, max_latency) ==
  [nd EXCEPT ![n].final_score = calculate_score(nd, n, max_latency),
             ![n].has = @ \cup {"final_score"}]

\* `for node in available_nodes: self.calculate_score(node)`
ScoreAll(nd, s, max_latency) ==
  [n \in DOMAIN nd |->
     IF n \in Range(s) THEN ScoreNode(nd, n, max_latency)[n] ELSE nd[n]]

\* Inputs of calculate_score taken on its own: any scored protocol, a
\* latency on either side of every threshold or none, any max_latency
ScoreLatencies == {50, 99, 100, 199, 200, 299, 300, 500, 501, 1200}
MaxLatencies == {50, 150, 250, 500, 1000}
ScoreInputs(p) ==
  {NewNode(p)}
    \cup {[NewNode(p) EXCEPT !.status = "online", !.latency = l,
                             !.has = {"latency"}] : l \in ScoreLatencies}

\* two parsed nodes of one protocol, before calculate_score is called on them
InitScore ==
  /\ config \in {[DefaultConfig EXCEPT !.attrs = LoadedAttrs,
                                       !.max_latency = m] :
                   m \in MaxLatencies}
  /\ \E p \in DOMAIN protocol_scores :
       node \in [1..2 -> ScoreInputs(p)]
  /\ parsed_nodes = <<1, 2>>
  /\ probes = [i \in 1..2 |-> IF Has(node, i, "latency") THEN 1 ELSE 0]
  /\ InputParsed
  /\ remaining_nodes = <<>>
  /\ pc = "call"
  /\ NothingRun

\* one call of calculate_score
CalculateScore ==
  /\ pc = "call"
  /\ \E n \in DOMAIN node :
       /\ ~Has(node, n, "final_score")
       /\ node' = ScoreNode(node, n, config.max_latency)
  /\ UNCHANGED <<config, parseVars, parsed_nodes, pc, probeVars, enrichVars,
                 output, report>>

NextScore == CalculateScore

SpecScore == InitScore /\ [][NextScore]_vars

\* SortKeyLess with the latency not negated: ties put the slower node first
SortKeyLess_SlowFirst(nd, a, b) ==
  \/ nd[a].final_score < nd[b].final_score
  \/ /\ nd[a].final_score = nd[b].final_score
     /\ nd[a].latency < nd[b].latency

\* key=lambda x: (x['final_score'], -x.get('latency', 999)), as a < on tuples
SortKeyLess(nd, a, b) ==
  LET la == IF Has(nd, a, "latency") THEN nd[a].latency ELSE MissingLatencyKey
      lb == IF Has(nd, b, "latency") THEN nd[b].latency ELSE MissingLatencyKey
  IN \/ nd[a].final_score < nd[b].final_score
     \/ /\ nd[a].final_score = nd[b].final_score
        /\ (0 - la) < (0 - lb)

\* one insertion of the stable descending sort: x goes behind every element
\* whose key is not less than its own
SortInsert(nd, sorted, x) ==
  LET k == Cardinality({i \in 1..Len(sorted) : ~SortKeyLess(nd, sorted[i], x)})
  IN SubSeq(sorted, 1, k) \o <<x>> \o SubSeq(sorted, k + 1, Len(sorted))

\* list.sort(key=..., reverse=True): descending, equal keys keep their order
RECURSIVE SortNodes(_, _)
SortNodes(nd, s) ==
  IF s = <<>> THEN <<>>
  ELSE SortInsert(nd, SortNodes(nd, SubSeq(s, 1, Len(s) - 1)), s[Len(s)])

\* Truncate that never cuts
Truncate_Never(s, max_output_nodes) == s

\* `if len(available_nodes) > self.max_output_nodes: available_nodes[:max]`
Truncate(s, max_output_nodes) ==
  IF Len(s) > max_output_nodes THEN PySliceTo(s, max_output_nodes) ELSE s

\* provider after the api-key fallback of check_ip_risk
Provider(rc) ==
  IF rc.provider = "abuseipdb" /\ ~rc.has_api_key THEN "ipapi" ELSE rc.provider

\* TargetNodes taking one node more than max_check
TargetNodes_OneMore(s, max_check) == PySliceTo(s, max_check + 1)

\* target_nodes = nodes[:max_check]
TargetNodes(s, max_check) == PySliceTo(s, max_check)

\* UncheckedNodes starting one node late
UncheckedNodes_SkipOne(s, max_check) == PySliceFrom(s, max_check + 1)

\* unchecked_nodes = nodes[max_check:]
UncheckedNodes(s, max_check) == PySliceFrom(s, max_check)

\* `self.ip_risk_config.get(...)`, the first statement of check_ip_risk,
\* raises AttributeError when load_config never set the attribute; nothing
\* catches it and process_nodes ends there
RiskConfigMissing(cfg) == "ip_risk_config" \notin cfg.attrs

\* RiskCheckEnabled that ignores the setting
RiskCheckEnabled_Always(cfg) == TRUE

\* `if not self.ip_risk_config.get('enabled', False): return nodes`
RiskCheckEnabled(cfg) == cfg.ip_risk_config.enabled

\* score, sort, truncate, and enter check_ip_risk up to its loop
ScoreAndRank ==
  /\ pc = "score"
  /\ LET nd == ScoreAll(node, available_nodes, config.max_latency)
         ranked == Truncate(SortNodes(nd, available_nodes),
                            config.max_output_nodes)
     IN /\ node' = nd
        /\ available_nodes' = ranked
        /\ nodes' = ranked
        /\ IF RiskConfigMissing(config)
           THEN /\ UNCHANGED <<target_nodes, unchecked_nodes>>
                /\ pc' = "crashed"
           ELSE IF RiskCheckEnabled(config)
           THEN /\ target_nodes' =
                     TargetNodes(ranked, config.ip_risk_config.check_top_nodes)
                /\ unchecked_nodes' =
                     UncheckedNodes(ranked,
                                    config.ip_risk_config.check_top_nodes)
                /\ pc' = "enrich"
           ELSE /\ UNCHANGED <<target_nodes, unchecked_nodes>>
                /\ pc' = "return"
  /\ checked_nodes' = <<>>
  /\ enrich_idx' = 1
  /\ UNCHANGED <<config, parseVars, parsed_nodes, remaining_nodes, total_tested,
                 batch_idx, current_batch, batch_results, futures, probes,
                 api_calls, answers, sleeps, output, report>>

\* -------------------------------------------------------------- enrichment
\* Country codes and abuse confidence scores the providers answer with
Countries == {"US", "CN"}
AbuseScores == {0, 10, 60}

\* What one iteration of the loop meets: the host resolves or not (ip), the
\* request gives a 200 answer that is not a reported failure or does not
\* (ok), the answer carries the fields the provider documents or is a JSON
\* object without them (complete), and the fields
FailedLookups ==
  [ip : BOOLEAN, ok : BOOLEAN, complete : {FALSE}, country : {""},
   abuse : {0}, hosting : {FALSE}, proxy : {FALSE}, mobile : {FALSE}]
Lookups(provider) ==
  {l \in FailedLookups : l.ip \/ ~l.ok}
    \cup (IF provider = "abuseipdb"
          THEN [ip : {TRUE}, ok : {TRUE}, complete : {TRUE},
                country : Countries, abuse : AbuseScores, hosting : {FALSE},
                proxy : {FALSE}, mobile : {FALSE}]
          ELSE [ip : {TRUE}, ok : {TRUE}, complete : {TRUE},
                country : Countries, abuse : {0}, hosting : BOOLEAN,
                proxy : BOOLEAN, mobile : {FALSE}])

\* how the lookup of one iteration went
AnswerKind(l) ==
  IF ~l.ip THEN "unresolved"
  ELSE IF ~l.ok THEN "failed"
  ELSE IF ~l.complete THEN "incomplete"
  ELSE "ok"

\* check_region_restriction: False for the hard-coded blocked countries
check_region_restriction(country) ==
  country = "" \/ country \notin {"CN", "RU", "IR", "KP"}

\* the final_score change of the abuse-score rule of _check_abuseipdb
AbuseAdjust(score, max_risk) ==
  IF score = 0 THEN 3
  ELSE IF score < 20 THEN 1
  ELSE IF score > max_risk THEN -10
  ELSE 0

\* _check_abuseipdb on a 200 answer l; response.json()['data'] and
\* data['abuseConfidenceScore'] raise on an answer without them, and the
\* bare except leaves the node as it was
check_abuseipdb(nd, n, l, rc) ==
  IF ~l.complete THEN nd ELSE
  [nd EXCEPT ![n].risk_score = l.abuse,
             ![n].country = l.country,
             ![n].has = @ \cup {"risk_score", "country"},
             ![n].final_score =
                @ - (IF check_region_restriction(l.country)
                     THEN 0 ELSE BlockedRegionPenalty)
                  + AbuseAdjust(l.abuse, rc.max_risk_score)]

\* _check_ipapi on a 200 answer l that is not a reported failure; every
\* field is read with data.get(key, default)
check_ipapi(nd, n, l, rc) ==
  LET country == IF l.complete THEN l.country ELSE "UNK"
      hosting == l.hosting /\ rc.exclude_hosting
      proxy == l.proxy /\ rc.exclude_proxy
      mobile == l.mobile /\ rc.exclude_mobile
      risky == hosting \/ proxy \/ mobile
      risk == Max(Max(IF hosting THEN 50 ELSE 0, IF proxy THEN 60 ELSE 0),
                  IF mobile THEN 30 ELSE 0)
  IN [nd EXCEPT ![n].country = country,
                ![n].risk_score = IF risky THEN risk ELSE 0,
                ![n].has = @ \cup {"risk_score", "country"},
                ![n].final_score =
                   @ - (IF hosting THEN 5 ELSE 0) - (IF proxy THEN 3 ELSE 0)
                     - (IF mobile THEN 2 ELSE 0)
                     + (IF risky THEN 0 ELSE 10)]

\* the node dict after the provider step of one iteration
AfterLookup(nd, n, l, provider, rc) ==
  IF ~(l.ip /\ l.ok) THEN nd
  ELSE IF provider = "abuseipdb" THEN check_abuseipdb(nd, n, l, rc)
  ELSE check_ipapi(nd, n, l, rc)

\* IsAllowed that looks at the block-list only
IsAllowed_BlockListOnly(country, rg) ==
  ~(rg.blocked_countries # {} /\ country \in rg.blocked_countries)

\* is_allowed of the region check
IsAllowed(country, rg) ==
  IF rg.allowed_countries # {} /\ country \notin rg.allowed_countries
  THEN FALSE
  ELSE IF rg.blocked_countries # {} /\ country \in rg.blocked_countries
  THEN FALSE
  ELSE TRUE

\* `region_config.get('enabled') and node.get('country')` and not allowed
RegionViolation(nd, n, rg) ==
  /\ rg.enabled
  /\ Has(nd, n, "country")
  /\ nd[n].country # ""
  /\ ~IsAllowed(nd[n].country, rg)

\* the filter policy drops the node (`continue` before checked_nodes.append)
DropsNode(nd, n, rg) == RegionViolation(nd, n, rg) /\ rg.policy = "filter"

\* `region_config.get('enabled')` raises when region_config is not a dict;
\* the `except Exception` of the loop body appends the node and goes on
RegionCheckRaises(rg) == ~rg.is_dict

\* one iteration of `for node in target_nodes`
EnrichNode ==
  /\ pc = "enrich"
  /\ enrich_idx <= Len(target_nodes)
  /\ LET n == target_nodes[enrich_idx]
         rc == config.ip_risk_config
         rg == config.region_config
     IN \E l \in Lookups(Provider(rc)) :
          LET nd == AfterLookup(node, n, l, Provider(rc), rc)
          IN /\ api_calls' = IF l.ip THEN Append(api_calls, n) ELSE api_calls
             /\ answers' = Append(answers, AnswerKind(l))
             /\ IF RegionCheckRaises(rg)
                THEN /\ node' = nd
                     /\ checked_nodes' = Append(checked_nodes, n)
                     /\ sleeps' = sleeps
                ELSE IF DropsNode(nd, n, rg)
                THEN /\ node' = nd
                     /\ checked_nodes' = checked_nodes
                     /\ sleeps' = sleeps + 1
                ELSE /\ node' =
                          IF RegionViolation(nd, n, rg)
                          THEN [nd EXCEPT ![n].score = @ - RegionScorePenalty]
                          ELSE nd
                     /\ checked_nodes' = Append(checked_nodes, n)
                     /\ sleeps' = sleeps + 1
  /\ enrich_idx' = enrich_idx + 1
  /\ UNCHANGED <<config, parseVars, parsed_nodes, pc, probeVars, nodes, target_nodes,
                 unchecked_nodes, output, report>>

\* all_nodes = checked_nodes + unchecked_nodes, sorted and returned
EnrichFinish ==
  /\ pc = "enrich"
  /\ enrich_idx > Len(target_nodes)
  /\ available_nodes' = SortNodes(node, checked_nodes \o unchecked_nodes)
  /\ pc' = "return"
  /\ UNCHANGED <<config, parseVars, parsed_nodes, node, remaining_nodes, total_tested,
                 batch_idx, current_batch, batch_results, futures, probes,
                 enrichVars, output, report>>

\* the sum of the counts of a distribution
RECURSIVE SumOf(_)
SumOf(f) ==
  IF DOMAIN f = {} THEN 0
  ELSE LET k == CHOOSE x \in DOMAIN f : TRUE
       IN f[k] + SumOf([x \in DOMAIN f \ {k} |-> f[x]])

\* the key of latency_distribution a latency is counted under
LatencyLabel(latency) ==
  IF latency < 100 THEN "<100ms"
  ELSE IF latency < 200 THEN "100-200ms"
  ELSE IF latency < 300 THEN "200-300ms"
  ELSE "300-500ms"

\* TopNodes with the ranks counted from 0
TopNodes_RankFromZero(nd, avail) ==
  [i \in 1..Len(PySliceTo(avail, TopReported)) |->
     [rank |-> i - 1, node |-> avail[i], score |-> nd[avail[i]].final_score]]

\* top_10_nodes: `for i, node in enumerate(available_nodes[:10])`
TopNodes(nd, avail) ==
  [i \in 1..Len(PySliceTo(avail, TopReported)) |->
     [rank |-> i, node |-> avail[i], score |-> nd[avail[i]].final_score]]

\* the report dict of _save_results
BuildReport(nd, avail, parsed, original) ==
  [summary |->
     [total_input |-> Len(original),
      after_dedup |-> Cardinality(Range(original)),
      parsed_success |-> Len(parsed),
      available_nodes |-> Len(avail)],
   protocol_distribution |->
     [p \in {nd[n].protocol : n \in Range(avail)} |->
        Cardinality({i \in 1..Len(avail) : nd[avail[i]].protocol = p})],
   latency_distribution |->
     [b \in {"<100ms", "100-200ms", "200-300ms", "300-500ms"} |->
        Cardinality({i \in 1..Len(avail) :
                       LatencyLabel(IF Has(nd, avail[i], "latency")
                                    THEN nd[avail[i]].latency ELSE 0) = b})],
   top_10_nodes |-> TopNodes(nd, avail)]

\* the sort after check_ip_risk and the call of _save_results
SaveResults ==
  /\ pc = "return"
  /\ available_nodes' = SortNodes(node, available_nodes)
  /\ output' = available_nodes'
  /\ report' = BuildReport(node, available_nodes', parsed_nodes, raw_nodes)
  /\ pc' = "done"
  /\ UNCHANGED <<config, parseVars, parsed_nodes, node, remaining_nodes, total_tested,
                 batch_idx, current_batch, batch_results, futures, probes,
                 enrichVars>>

Next ==
  \/ StopGuarantee
  \/ StopExhausted
  \/ LaunchBatch
  \/ ProbeStart
  \/ ProbeComplete
  \/ FoldBatch
  \/ ScoreAndRank
  \/ EnrichNode
  \/ EnrichFinish
  \/ SaveResults

Spec == Init /\ [][Next]_vars

SpecRegion == InitRegion /\ [][Next]_vars

\* ----------------------------------------------------- ranking and report
\* Nodes as one batch of probes leaves them in available_nodes: online, with
\* a latency in each bucket of the report
ReportLatencies == {50, 150, 250, 400}
ReportInputs ==
  {[NewNode(IF l \in {50, 250} THEN "vless" ELSE "ssr")
      EXCEPT !.status = "online", !.latency = l, !.has = {"latency"}] :
     l \in ReportLatencies}

\* Configurations of a run followed from scoring to the report: nothing is
\* truncated, enrichment is off or on with a block-list in filter mode
ReportConfigs ==
  {[DefaultConfig EXCEPT !.attrs = LoadedAttrs,
                         !.max_test_nodes = MaxPool,
                         !.min_guarantee = 0,
                         !.max_output_nodes = MaxPool,
                         !.max_workers = 1,
                         !.ip_risk_config = rc,
                         !.region_config = rg] :
     rc \in {RiskDisabled,
             [RiskDisabled EXCEPT !.enabled = TRUE, !.check_top_nodes = 2]},
     rg \in {g \in RegionConfigs : g.enabled => g.policy = "filter"}}

\* process_nodes when the loop is left after one batch that took the whole
\* pool of n nodes and found every node available
AfterOneBatch(n) ==
  /\ parsed_nodes = [i \in 1..n |-> i]
  /\ probes = [i \in 1..n |-> 1]
  /\ futures = [i \in 1..n |-> "done"]
  /\ total_tested = n
  /\ batch_idx = IF CeilingReached(n) \/ n = 0 THEN 1 ELSE 2
  /\ InputParsed
  /\ remaining_nodes = <<>>
  /\ current_batch = parsed_nodes
  /\ batch_results = parsed_nodes
  /\ available_nodes = parsed_nodes
  /\ pc = "score"
  /\ nodes = <<>>
  /\ target_nodes = <<>>
  /\ unchecked_nodes = <<>>
  /\ checked_nodes = <<>>
  /\ enrich_idx = 0
  /\ api_calls = <<>>
  /\ answers = <<>>
  /\ sleeps = 0
  /\ output = <<>>
  /\ report = <<>>

InitReport ==
  /\ config \in ReportConfigs
  /\ \E n \in 0..MaxPool :
       /\ node \in [1..n -> ReportInputs]
       /\ AfterOneBatch(n)

NextReport ==
  \/ ScoreAndRank
  \/ EnrichNode
  \/ EnrichFinish
  \/ SaveResults

SpecReport == InitReport /\ [][NextReport]_vars

\* Configurations that vary max_risk_score, with the keyed provider on both
\* nodes of the window and no region policy
RiskRuleConfigs ==
  {[DefaultConfig EXCEPT !.attrs = LoadedAttrs,
                         !.max_test_nodes = MaxPool,
                         !.min_guarantee = 0,
                         !.max_workers = 1,
                         !.ip_risk_config =
                            [RiskDisabled EXCEPT !.enabled = TRUE,
                                                 !.check_top_nodes = 2,
                                                 !.max_risk_score = m]] :
     m \in {5, 50, 100}}

InitRisk ==
  /\ config \in RiskRuleConfigs
  /\ \E n \in 1..2 :
       /\ node \in [1..n -> ReportInputs]
       /\ AfterOneBatch(n)

SpecRisk == InitRisk /\ [][NextReport]_vars

\* ================================================================== claims
FailedStatuses == {"offline", "timeout", "dns_error", "error"}

\* the nodes that were probed and found available
AvailableSet ==
  {n \in DOMAIN node : /\ node[n].status = "online"
                       /\ node[n].latency <= config.max_latency}

\* C1: once the available nodes number at least min_guarantee when the loop
\* is back at its head after a batch (or the loop has been left), no further
\* batch is launched: no node leaves remaining_nodes, none is probed, and
\* the run goes on to scoring.
C1_NoBatchAfterGuarantee ==
  [][((pc = "loop" /\ Len(available_nodes) >= config.min_guarantee)
        \/ pc \notin {"loop", "probing"})
       => /\ pc' \notin {"loop", "probing"}
          /\ remaining_nodes' = remaining_nodes
          /\ total_tested' = total_tested
          /\ probes' = probes]_vars

\* C1 witness: the loop stopped on the guarantee after a batch, below the
\* ceiling, with unprobed candidates left
C1_Witness ==
  /\ pc = "score"
  /\ total_tested > 0
  /\ total_tested < HardCeiling
  /\ Len(available_nodes) >= config.min_guarantee
  /\ remaining_nodes # <<>>

\* C2: the total number of nodes probed in one run never exceeds the hard
\* ceiling (stated for a first-batch size that is itself within the ceiling).
C2_TotalWithinCeiling ==
  config.max_test_nodes <= HardCeiling => total_tested <= HardCeiling

\* C3: for a positive max_test_nodes the first batch has
\* min(max_test_nodes, pool size) nodes and every later batch at most the
\* smaller fixed size, whatever the earlier batches found.
C3_BatchSizes ==
  (pc = "probing" /\ config.max_test_nodes >= 1)
    => IF batch_idx = 1
       THEN Len(current_batch) = Min(config.max_test_nodes, Len(parsed_nodes))
       ELSE Len(current_batch) <= LaterBatchSize

\* C4: batches are sequential: whenever the loop is at its head or has been
\* left for scoring, every probe of the last batch has completed, each of
\* its nodes was probed, and its results are folded into available_nodes;
\* and available_nodes and total_tested change during probing only when the
\* whole batch is done.
C4_BatchesSequential ==
  /\ pc \in {"loop", "score"}
       => /\ \A i \in 1..Len(futures) : futures[i] = "done"
          /\ \A n \in Range(current_batch) : probes[n] = 1
          /\ Range(batch_results) \subseteq Range(available_nodes)
  /\ pc = "probing"
       => /\ \A i \in 1..Len(futures) :
               futures[i] = "done" <=> probes[current_batch[i]] = 1
          /\ \A n \in Range(batch_results) : n \notin Range(available_nodes)
          /\ total_tested + Len(current_batch) + Len(remaining_nodes)
               = Len(parsed_nodes)

\* C4 witness: the guarantee (1) was reached by the first completion of a
\* two-node batch, the second probe still ran, and both were folded
C4_Witness ==
  /\ pc = "loop"
  /\ config.min_guarantee = 1
  /\ Len(current_batch) = 2
  /\ Len(batch_results) = 2
  /\ Len(available_nodes) = 2

\* the available nodes in the order of the shuffled pool, which is the order
\* the probes were submitted in
AvailableInSubmissionOrder ==
  SelectSeq(parsed_nodes, LAMBDA n : n \in AvailableSet)

\* C5: with enrichment off, the list handed to the output writer is the one
\* the same probe results give when the probes complete in submission
\* order, whatever order they completed in.
C5_CompletionOrderIrrelevant ==
  (pc = "done" /\ ~config.ip_risk_config.enabled)
    => output = SortNodes(node,
                          Truncate(SortNodes(node, AvailableInSubmissionOrder),
                                   config.max_output_nodes))

\* C6: every candidate is probed at most once, the nodes taken into batches
\* and remaining_nodes partition the pool, and total_tested never exceeds
\* the pool size.
C6_ProbedAtMostOnce ==
  LET batched == {n \in DOMAIN probes : probes[n] > 0}
                   \cup (IF pc = "probing" THEN Range(current_batch) ELSE {})
  IN /\ \A n \in DOMAIN probes : probes[n] <= 1
     /\ batched \cap Range(remaining_nodes) = {}
     /\ batched \cup Range(remaining_nodes) = Range(parsed_nodes)
     /\ Cardinality(Range(remaining_nodes)) = Len(remaining_nodes)
     /\ total_tested <= Len(parsed_nodes)
     /\ pc # "probing" => total_tested = Cardinality(batched)

\* C6 witness: a third batch was launched after probes that failed or were
\* too slow, and none of those nodes is in it or in remaining_nodes
C6_Witness ==
  /\ pc = "probing"
  /\ batch_idx = 3
  /\ \E a, b \in DOMAIN node :
       /\ node[a].status \in FailedStatuses
       /\ node[b].status = "online" /\ node[b].latency > config.max_latency
       /\ {a, b} \cap (Range(current_batch) \cup Range(remaining_nodes)) = {}

\* C7: every node of the available set (and of the batch's collected
\* results) is online with a latency of at most max_latency; a node that is
\* online but slower, or whose probe failed, is in neither, and a failed
\* probe records no latency.
C7_AvailableAreOnlineAndFast ==
  LET held == Range(available_nodes) \cup Range(batch_results)
  IN /\ \A n \in held : /\ node[n].status = "online"
                        /\ Has(node, n, "latency")
                        /\ node[n].latency <= config.max_latency
     /\ \A n \in DOMAIN node :
          /\ (node[n].status = "online"
                /\ node[n].latency > config.max_latency) => n \notin held
          /\ node[n].status \in FailedStatuses
               => (n \notin held /\ ~Has(node, n, "latency"))
          /\ node[n].status = "online" <=> Has(node, n, "latency")

\* C7 witness: after a batch, one node is available, one is online but too
\* slow, and one failed
C7_Witness ==
  /\ pc = "score"
  /\ Len(available_nodes) = 1
  /\ \E b, c \in DOMAIN node :
       /\ node[b].status = "online" /\ node[b].latency > config.max_latency
       /\ node[c].status = "dns_error"

\* C8: the list handed to the output writer is in descending final_score
\* order, equal scores in ascending latency order, by the final_score values
\* as enrichment left them.
C8_OutputRanked ==
  pc = "done"
    => \A i \in 1..(Len(output) - 1) :
         LET a == node[output[i]]
             b == node[output[i + 1]]
         IN \/ a.final_score > b.final_score
            \/ a.final_score = b.final_score /\ a.latency <= b.latency

\* C8 witness: enrichment swapped the two nodes of the ranked list, and the
\* output holds two nodes of equal final_score and different latency
C8_Witness ==
  /\ pc = "done"
  /\ Len(nodes) = 2
  /\ Len(output) = 2
  /\ output[1] = nodes[2]
  /\ output[2] = nodes[1]
  /\ node[output[1]].final_score = node[output[2]].final_score
  /\ node[output[1]].latency < node[output[2]].latency

\* the nodes of the enrichment window the filter policy removed
Dropped ==
  {n \in Range(target_nodes) : DropsNode(node, n, config.region_config)}

\* C9: the output has at most max_output_nodes entries, all of them from the
\* list as truncated before enrichment, and is shorter than that list by
\* exactly the number of nodes the filter policy dropped: no node cut off by
\* the truncation fills a dropped slot.
C9_TruncatedNeverRefilled ==
  pc = "done"
    => /\ Len(output) <= config.max_output_nodes
       /\ Len(nodes) = Min(config.max_output_nodes, Cardinality(AvailableSet))
       /\ Range(output) = Range(nodes) \ Dropped
       /\ Len(output) = Len(nodes) - Cardinality(Dropped)

\* C9 witness: an available node was cut off by the truncation and the
\* filter policy dropped a node of the truncated list
C9_Witness ==
  /\ pc = "done"
  /\ Cardinality(AvailableSet) > config.max_output_nodes
  /\ Dropped # {}
  /\ Len(output) < config.max_output_nodes

\* C10: the provider is queried at most check_top_nodes times, each time for
\* a different node of the first check_top_nodes positions of the ranked,
\* truncated list.
C10_QueriesWithinWindow ==
  LET k == config.ip_risk_config.check_top_nodes
  IN /\ Len(api_calls) <= k
     /\ Cardinality(Range(api_calls)) = Len(api_calls)
     /\ \A i \in 1..Len(api_calls) :
          \E j \in 1..Min(k, Len(nodes)) : nodes[j] = api_calls[i]
     /\ ~config.ip_risk_config.enabled => api_calls = <<>>

\* C10 witness: the provider was queried check_top_nodes times and the ranked
\* list holds a node beyond the window
C10_Witness ==
  /\ pc = "done"
  /\ Len(api_calls) = config.ip_risk_config.check_top_nodes
  /\ Len(nodes) > config.ip_risk_config.check_top_nodes

\* ------------------------------------------------------------ region policy
\* a recorded country that the lists of rg do not admit
NonCompliant(country, rg) ==
  \/ rg.allowed_countries # {} /\ country \notin rg.allowed_countries
  \/ rg.blocked_countries # {} /\ country \in rg.blocked_countries

FilterMode ==
  /\ config.region_config.is_dict
  /\ config.region_config.enabled
  /\ config.region_config.policy = "filter"

\* C11: with the region policy enabled in filter mode, once check_ip_risk has
\* returned no node of the list, and so none of the final output, has a
\* recorded country that is absent from a non-empty allow-list or present in
\* a non-empty block-list.
C11_FilterRemovesNonCompliant ==
  (FilterMode /\ pc \in {"return", "done"}) =>
    \A n \in Range(available_nodes) \cup Range(output) :
       Has(node, n, "country") =>
         ~NonCompliant(node[n].country, config.region_config)

\* a finished run in filter mode with an allow-list, where a node of the
\* window was removed for its country and another one, with an admitted
\* country, is in the output
C11_Witness ==
  /\ FilterMode
  /\ pc = "done"
  /\ config.region_config.allowed_countries # {}
  /\ \E n \in Range(target_nodes) :
       /\ Has(node, n, "country")
       /\ NonCompliant(node[n].country, config.region_config)
       /\ n \notin Range(output)
  /\ \E n \in Range(output) : Has(node, n, "country")

PenalizeMode ==
  /\ config.region_config.is_dict
  /\ config.region_config.enabled
  /\ config.region_config.policy # "filter"

\* C12: with the region policy enabled in penalize mode, an iteration of the
\* enrichment loop that finds its node non-compliant keeps the node in the
\* list and leaves it with a final_score (the key of the final sort and the
\* score of the report) that is RegionScorePenalty lower than the final_score
\* the provider step alone gives the node.
C12_PenalizeLowersFinalScore ==
  [][(/\ pc = "enrich"
      /\ enrich_idx' = enrich_idx + 1
      /\ PenalizeMode
      /\ RegionViolation(node', target_nodes[enrich_idx],
                         config.region_config))
     => LET n == target_nodes[enrich_idx]
            rc == config.ip_risk_config
        IN /\ n \in Range(checked_nodes')
           /\ \E l \in Lookups(Provider(rc)) :
                LET nd == AfterLookup(node, n, l, Provider(rc), rc)
                IN /\ nd[n].country = node'[n].country
                   /\ nd[n].risk_score = node'[n].risk_score
                   /\ node'[n].final_score =
                        nd[n].final_score - RegionScorePenalty]_vars

\* the nodes of the ranked list behind its first check_top_nodes entries
BeyondWindow ==
  Range(PySliceFrom(nodes, config.ip_risk_config.check_top_nodes))

\* C13: while check_ip_risk runs and until the results are saved, every node
\* behind the first check_top_nodes entries of the ranked list keeps all its
\* fields (final_score, score, latency), gains no risk_score and no country,
\* and is in the list check_ip_risk returns and in the list that is saved,
\* whatever the region policy.
C13_BeyondWindowUntouched ==
  [][(config.ip_risk_config.enabled /\ pc \in {"enrich", "return"})
     => /\ \A n \in BeyondWindow :
             /\ node'[n] = node[n]
             /\ ~Has(node', n, "risk_score")
             /\ ~Has(node', n, "country")
        /\ pc' \in {"return", "done"} =>
             BeyondWindow \subseteq Range(available_nodes')
        /\ pc' = "done" => BeyondWindow \subseteq Range(output')]_vars

\* a finished run with a region policy on, where a node of the window has a
\* country the policy does not admit and a node behind the window is saved
C13_Witness ==
  /\ pc = "done"
  /\ config.ip_risk_config.enabled
  /\ config.region_config.enabled
  /\ \E n \in BeyondWindow : n \in Range(output)
  /\ \E t \in Range(target_nodes) :
       /\ Has(node, t, "country")
       /\ NonCompliant(node[t].country, config.region_config)

\* C14: every iteration of the enrichment loop takes one pacing delay before
\* the next node is processed, whichever path it follows: lookup succeeded,
\* lookup failed, host unresolved, node dropped by the filter policy, or an
\* error raised while the node is processed.
C14_OneDelayPerNode ==
  pc = "enrich" => sleeps = enrich_idx - 1

\* the window nodes whose provider lookup failed: the request raised, gave a
\* non-200 status or a reported failure, or the answer lacked its fields
FailedLookupNodes ==
  {target_nodes[i] : i \in {j \in 1..Len(answers) :
                              answers[j] \in {"failed", "incomplete"}}}

\* C15: a node whose provider lookup failed keeps the final_score it had
\* before enrichment, gets no risk_score and no country, and stays in the
\* list, first in checked_nodes and then in the returned list.
C15_FailedLookupLeavesNode ==
  \A n \in FailedLookupNodes :
     /\ node[n].final_score = calculate_score(node, n, config.max_latency)
     /\ ~Has(node, n, "risk_score")
     /\ ~Has(node, n, "country")
     /\ pc = "enrich" => n \in Range(checked_nodes)
     /\ pc \in {"return", "done"} => n \in Range(available_nodes)

\* ---------------------------------------------------------- missing files
\* C16: a filter built without a usable config.yaml runs on its defaults and
\* the run is never aborted: it gets through probing, scoring and
\* check_ip_risk to _save_results.
C16_NoConfigNeverFatal ==
  config.attrs = {} => pc # "crashed"

\* the signal a run that reaches _save_results gives its caller
SuccessSignal == "None"

\* C17: a run that finds neither input file has parsed and probed nothing,
\* has written nothing, and gives its caller a signal that differs from the
\* signal of a successful run.
C17_MissingInputSignalled ==
  pc = "halted" =>
    /\ parsed_nodes = <<>>
    /\ \A n \in DOMAIN probes : probes[n] = 0
    /\ output = <<>>
    /\ CallerSees # SuccessSignal

\* C18: during and after the parse loop no two nodes of the pool have the
\* same key protocol://host:port, each node of the pool is the one built from
\* the first line of the input that gives its key, and every key a parsed
\* line gave has its node in the pool until the protocol filter runs.
C18_FirstSeenWins ==
  pc \in {"parse", "loop"} =>
    /\ \A a, b \in Range(parsed_nodes) :
         a # b => Key(raw_nodes[a]) # Key(raw_nodes[b])
    /\ \A a \in Range(parsed_nodes) :
         /\ Parses(raw_nodes[a])
         /\ node[a].protocol = parse_node(raw_nodes[a]).protocol
         /\ \A j \in 1..(a - 1) :
              ~(Parses(raw_nodes[j]) /\ Key(raw_nodes[j]) = Key(raw_nodes[a]))
    /\ pc = "parse" =>
         \A j \in 1..(parse_idx - 1) :
            Parses(raw_nodes[j]) =>
              \E a \in Range(parsed_nodes) :
                 Key(raw_nodes[a]) = Key(raw_nodes[j])

\* the parse loop is over an input where two different lines give the same
\* key, a third gives another key, and the pool holds the first of the two
C18_Witness ==
  /\ pc = "parse"
  /\ parse_idx > Len(raw_nodes)
  /\ Len(parsed_nodes) = 2
  /\ \E i, j \in 1..Len(raw_nodes) :
       /\ i < j
       /\ Parses(raw_nodes[i])
       /\ Key(raw_nodes[i]) = Key(raw_nodes[j])
       /\ raw_nodes[i] # raw_nodes[j]
       /\ i \in Range(parsed_nodes)

\* ------------------------------------------------------------------ scoring
\* the latency buckets, from the fastest: below 100, below 200, below 300,
\* up to max_latency, above max_latency
LatencyBucket(latency, max_latency) ==
  IF latency < 100 THEN 1
  ELSE IF latency < 200 THEN 2
  ELSE IF latency < 300 THEN 3
  ELSE IF latency <= max_latency THEN 4
  ELSE 5

\* C19: for every max_latency, of two nodes of the same protocol and base
\* score that calculate_score has scored, the one in a strictly lower latency
\* bucket does not have the lower final_score.
C19_MonotonicInLatency ==
  \A a, b \in DOMAIN node :
     (/\ Has(node, a, "final_score") /\ Has(node, b, "final_score")
      /\ Has(node, a, "latency") /\ Has(node, b, "latency")
      /\ node[a].protocol = node[b].protocol
      /\ node[a].score = node[b].score
      /\ LatencyBucket(node[a].latency, config.max_latency)
           < LatencyBucket(node[b].latency, config.max_latency))
     => node[a].final_score >= node[b].final_score

\* two scored nodes in different buckets under a max_latency below 300, the
\* faster one with the higher final_score
C19_Witness ==
  /\ pc = "call"
  /\ config.max_latency < 300
  /\ Has(node, 1, "final_score") /\ Has(node, 2, "final_score")
  /\ Has(node, 1, "latency") /\ Has(node, 2, "latency")
  /\ LatencyBucket(node[1].latency, config.max_latency)
       < LatencyBucket(node[2].latency, config.max_latency)
  /\ node[2].latency > config.max_latency
  /\ node[1].final_score > node[2].final_score

\* base score of the protocol, plus the first adjustment that matches the
\* latency, plus 2 for a preferred protocol
ExpectedFinalScore(d, max_latency) ==
  protocol_scores[d.protocol]
    + (CASE "latency" \notin d.has -> 0
         [] d.latency < 100 -> 5
         [] d.latency >= 100 /\ d.latency < 200 -> 3
         [] d.latency >= 200 /\ d.latency < 300 -> 1
         [] d.latency >= 300 /\ d.latency > max_latency -> -5
         [] OTHER -> 0)
    + (IF d.protocol \in {"hysteria2", "vless", "trojan", "vmess", "ss"}
       THEN 2 ELSE 0)

\* C20: a call of calculate_score changes the dict of one node only, sets
\* its final_score to the protocol base score plus the one latency adjustment
\* plus the preferred-protocol bonus, a value fixed by the node's protocol,
\* its latency and max_latency, and leaves every other field and everything
\* else as it was.
C20_ScoreFormulaAndFrame ==
  [][pc = "call"
     => /\ \A n \in DOMAIN node :
             node'[n] # node[n] =>
               node'[n] =
                 [node[n] EXCEPT
                    !.final_score =
                       ExpectedFinalScore(node[n], config.max_latency),
                    !.has = @ \cup {"final_score"}]
        /\ Cardinality({n \in DOMAIN node : node'[n] # node[n]}) <= 1
        /\ DOMAIN node' = DOMAIN node
        /\ UNCHANGED <<config, parseVars, parsed_nodes, pc, probeVars,
                       enrichVars, output, report>>]_vars

\* a preferred-protocol node slower than 300 ms and than max_latency, and a
\* node without a latency, both scored
C20_Witness ==
  /\ pc = "call"
  /\ \E n \in DOMAIN node :
       /\ Has(node, n, "final_score")
       /\ Has(node, n, "latency")
       /\ node[n].latency >= 300
       /\ node[n].latency > config.max_latency
       /\ node[n].protocol = "trojan"
       /\ node[n].final_score = protocol_scores["trojan"] - 5 + 2
  /\ \E n \in DOMAIN node :
       /\ Has(node, n, "final_score")
       /\ ~Has(node, n, "latency")

\* ------------------------------------------------------------- parse_node
\* C21: every node of the pool was built from a line for which parse_node
\* gives a protocol of the fixed set, a non-empty host and a port in
\* 1..65535; a line with no '://', with an unsupported scheme, or in which
\* the parser finds no host gives no node.
C21_PoolNodesWellFormed ==
  pc \in {"parse", "loop"} =>
    /\ \A a \in Range(parsed_nodes) :
         /\ parse_node(raw_nodes[a]).protocol \in DOMAIN protocol_scores
         /\ parse_node(raw_nodes[a]).host # ""
         /\ parse_node(raw_nodes[a]).port >= 1
         /\ parse_node(raw_nodes[a]).port <= 65535
    /\ \A j \in 1..Len(raw_nodes) :
         (\/ raw_nodes[j].scheme = ""
          \/ Lower(raw_nodes[j].scheme) \notin DOMAIN protocol_scores
          \/ raw_nodes[j].host = "")
         => j \notin Range(parsed_nodes)

\* ------------------------------------------------------------------ report
\* C22: once the results are saved, the report's available_nodes is the
\* number of lines written to the output, the counts of
\* protocol_distribution and those of latency_distribution each sum to that
\* number, and top_10_nodes holds the first min(TopReported, n) entries of
\* the output in order, ranked 1, 2, ...
C22_ReportAgreesWithOutput ==
  pc = "done" =>
    /\ report.summary.available_nodes = Len(output)
    /\ SumOf(report.protocol_distribution) = Len(output)
    /\ SumOf(report.latency_distribution) = Len(output)
    /\ Len(report.top_10_nodes) = Min(TopReported, Len(output))
    /\ \A i \in 1..Len(report.top_10_nodes) :
         /\ report.top_10_nodes[i].rank = i
         /\ report.top_10_nodes[i].node = output[i]

\* a saved run where the filter policy dropped a node, more nodes are
\* written than the top list holds, and two latency buckets are counted
C22_Witness ==
  /\ pc = "done"
  /\ Len(output) > TopReported
  /\ Len(output) < Len(parsed_nodes)
  /\ \E n \in Range(target_nodes) :
       DropsNode(node, n, config.region_config) /\ n \notin Range(output)
  /\ report.latency_distribution["100-200ms"] >= 1
  /\ report.latency_distribution["300-500ms"] >= 1

\* --------------------------------------------------- the loop, once more
\* C23: the probing loop terminates for every max_test_nodes and
\* min_guarantee, because every batch it launches takes at least one node
\* out of remaining_nodes; a batch that takes none is empty, probes nothing,
\* and brings the loop back to its head with remaining_nodes, available_nodes
\* and total_tested as they were, so that the same iteration repeats.
C23_EveryBatchTakesNodes ==
  [][(pc = "loop" /\ pc' = "probing")
     => Len(remaining_nodes') < Len(remaining_nodes)]_vars

\* C24: the step that leaves the probing loop with fewer than min_guarantee
\* available nodes leaves it with no candidate left or with at least
\* HardCeiling nodes probed.
C24_NeverGivesUpEarly ==
  [][(pc \in {"loop", "probing"} /\ pc' = "score"
        /\ Len(available_nodes') < config.min_guarantee)
     => (remaining_nodes' = <<>> \/ total_tested' >= HardCeiling)]_vars

\* the loop was left at the ceiling, short of the guarantee, with candidates
\* still unprobed
C24_Witness ==
  /\ pc = "score"
  /\ Len(available_nodes) < config.min_guarantee
  /\ remaining_nodes # <<>>
  /\ total_tested >= HardCeiling

\* ---------------------------------------------------------------- risk rule
\* what the abuse-score rule added to the final_score of node n in a step:
\* the change of final_score without the penalty for a blocked country
RiskRuleChange(n) ==
  node'[n].final_score - node[n].final_score
    + (IF check_region_restriction(node'[n].country)
       THEN 0 ELSE BlockedRegionPenalty)

\* C25: with abuseipdb, an iteration that records an abuse score above
\* max_risk_score lowers the node's final_score by the risk rule, and the
\* rule raises the final_score only of a node whose abuse score is not above
\* max_risk_score.
C25_HighRiskNeverRewarded ==
  [][(/\ pc = "enrich"
      /\ enrich_idx' = enrich_idx + 1
      /\ Provider(config.ip_risk_config) = "abuseipdb"
      /\ Has(node', target_nodes[enrich_idx], "risk_score"))
     => LET n == target_nodes[enrich_idx]
            high == node'[n].risk_score > config.ip_risk_config.max_risk_score
        IN /\ high => RiskRuleChange(n) < 0
           /\ RiskRuleChange(n) > 0 => ~high]_vars

\* ------------------------------------------------------ enrichment disabled
\* C26: with ip_risk_check.enabled false, check_ip_risk returns the list it
\* was given, same nodes in the same order; no provider was queried and no
\* delay taken; every node has the base score of its protocol, the
\* final_score calculate_score gave it, and neither risk_score nor country.
\* This holds with the region policy enabled in filter mode as well.
C26_DisabledChangesNothing ==
  (/\ ~RiskConfigMissing(config)
   /\ ~config.ip_risk_config.enabled
   /\ pc \in {"return", "done"})
  => /\ available_nodes = nodes
     /\ pc = "done" => output = nodes
     /\ api_calls = <<>>
     /\ answers = <<>>
     /\ sleeps = 0
     /\ \A n \in DOMAIN node :
          /\ ~Has(node, n, "risk_score")
          /\ ~Has(node, n, "country")
          /\ node[n].score = protocol_scores[node[n].protocol]
          /\ Has(node, n, "final_score") =>
               node[n].final_score =
                 calculate_score(node, n, config.max_latency)

\* a saved run with enrichment off, the region policy on in filter mode, and
\* two nodes in the output
C26_Witness ==
  /\ pc = "done"
  /\ ~config.ip_risk_config.enabled
  /\ FilterMode
  /\ Len(output) >= 2

\* C27: with region_limit disabled, two enriched nodes that agree in
\* protocol, base score, latency and risk score, and differ only in the
\* country the provider returned, have the same final_score.
C27_CountryDoesNotCount ==
  ~config.region_config.enabled =>
    \A a, b \in DOMAIN node :
       (/\ Has(node, a, "country") /\ Has(node, b, "country")
        /\ Has(node, a, "risk_score") /\ Has(node, b, "risk_score")
        /\ node[a].protocol = node[b].protocol
        /\ node[a].score = node[b].score
        /\ node[a].latency = node[b].latency
        /\ node[a].risk_score = node[b].risk_score)
       => node[a].final_score = node[b].final_score

====
